---- MODULE Spec2Model ----
(***************************************************************************)
(* Message Status Task (ECS/message-status/src/app.py).                    *)
(*                                                                         *)
(* MessageStatusProcessor polls two SQS queues (StatusUpdateQueue and the  *)
(* DLQ), looks up the original push request of every status report,        *)
(* re-submits failed pushes to the push queue, forwards the merged event   *)
(* to the event queue and deletes the source messages.                     *)
(*                                                                         *)
(* Python values are modelled as follows:                                  *)
(*   dict            a TLA+ record (function over its keys)                *)
(*   Optional value  a sequence of length <= 1: << >> is None, <<v>> is v  *)
(*   list            a sequence                                            *)
(***************************************************************************)
EXTENDS Integers, Sequences, FiniteSets, TLC

\* ------------------------------------------------------------------------
\* Bounds of the model
\* ------------------------------------------------------------------------

\* number of status messages the two source queues hold between them
MaxMsgs == 2

\* ------------------------------------------------------------------------
\* Configuration (MessageStatusProcessor.__init__)
\* ------------------------------------------------------------------------

max_messages == 10

max_retry_cnt == 3

QueueNames == {"StatusUpdateQueue", "DLQ"}

\* the environment variables __init__ requires (lines 38-42)
RequiredEnv == {"STATUS_UPDATE_QUEUE_URL", "DLQ_URL", "EVENT_QUEUE_URL",
                "PUSH_QUEUE_URL", "QUERY_DB_URL"}

\* ------------------------------------------------------------------------
\* Python helpers
\* ------------------------------------------------------------------------

None == << >>

Some(v) == << v >>

\* d.get(k)
Get(d, k) == IF k \in DOMAIN d THEN Some(d[k]) ELSE None

\* d.get(k, default)
GetOr(d, k, default) == IF k \in DOMAIN d THEN d[k] ELSE default

\* d.update(u) on a copy of d
Update(d, u) ==
    [k \in (DOMAIN d) \cup (DOMAIN u) |-> IF k \in DOMAIN u THEN u[k] ELSE d[k]]

\* truth value of an Optional[dict]: None and the empty dict are falsy
Truthy(o) == o /= None /\ DOMAIN o[1] /= {}

\* the injective sequences over S of length 1 .. n
RECURSIVE Orderings(_, _)
Orderings(S, n) ==
    IF n = 0 \/ S = {} THEN {<< >>}
    ELSE {<< >>} \cup
         UNION {{<<x>> \o t : t \in Orderings(S \ {x}, n - 1)} : x \in S}

\* os.environ.get(name): unset, set to the empty string, or set to a URL
EnvValues == {None, Some(""), Some("url")}

\* faulty variant of config_complete: any() in place of all()
config_any(environ) ==
    \E k \in RequiredEnv : environ[k] /= None /\ environ[k][1] /= ""

\* all([...]) of line 45: every value is set and not empty
config_complete(environ) ==
    \A k \in RequiredEnv : environ[k] /= None /\ environ[k][1] /= ""

\* ------------------------------------------------------------------------
\* The environment: message bodies and the query service's records
\* ------------------------------------------------------------------------

\* the records of the query service, by sns_id; the record of "s1" carries
\* a status of its own, the record of "s3" carries no retry_cnt
QueryDb ==
    [s \in {"s1", "s2", "s3"} |->
        CASE s = "s1" -> [ap_id |-> "app", transaction_id |-> "t1", token |-> "tok1",
                          payload |-> "p1", retry_cnt |-> 1, status |-> "SENT"]
          [] s = "s2" -> [ap_id |-> "app", transaction_id |-> "t2", token |-> "tok2",
                          payload |-> "p2", retry_cnt |-> max_retry_cnt]
          [] s = "s3" -> [ap_id |-> "app", transaction_id |-> "t3", token |-> "tok3",
                          payload |-> "p3"]]

required_fields == {"sns_id", "delivery_status", "provider_response", "timestamp"}

StatusReport(sns, status) ==
    [sns_id |-> sns, delivery_status |-> status, provider_response |-> "resp",
     timestamp |-> "ts"]

\* the report d without the key f
Without(d, f) == [k \in (DOMAIN d) \ {f} |-> d[k]]

\* A message body is a string: either the JSON text of an object (json,
\* with the object it encodes) or text that is no JSON at all.
JsonBody(obj) == [json |-> TRUE, obj |-> obj]

GarbageBody == [json |-> FALSE, obj |-> [raw |-> "not json"]]

\* the bodies of the status messages, by MessageId
Bodies ==
    ("failure-s1" :> JsonBody(StatusReport("s1", "FAILURE")))
    @@ ("success-s1" :> JsonBody(StatusReport("s1", "SUCCESS")))
    @@ ("failure-s2" :> JsonBody(StatusReport("s2", "FAILURE")))
    @@ ("failure-s3" :> JsonBody(StatusReport("s3", "FAILURE")))
    @@ ("no-sns_id" :> JsonBody(Without(StatusReport("s1", "FAILURE"), "sns_id")))
    @@ ("no-delivery_status" :>
           JsonBody(Without(StatusReport("s1", "FAILURE"), "delivery_status")))
    @@ ("no-provider_response" :>
           JsonBody(Without(StatusReport("s1", "FAILURE"), "provider_response")))
    @@ ("no-timestamp" :> JsonBody(Without(StatusReport("s1", "FAILURE"), "timestamp")))
    @@ ("not-json" :> GarbageBody)

\* json.loads(body): None stands for json.JSONDecodeError
JsonLoads(body) == IF body.json THEN Some(body.obj) ELSE None

\* The status messages that can be sent to the source queues. A message is
\* identified by its queue and MessageId (the messages of one queue differ
\* in their bodies); the same value serves as its ReceiptHandle.
Messages == [queue : QueueNames, MessageId : DOMAIN Bodies]

\* the subsets of S with exactly n elements
RECURSIVE SubsetsOfSize(_, _)
SubsetsOfSize(S, n) ==
    IF n = 0 THEN {{}}
    ELSE UNION {{T \cup {x} : T \in SubsetsOfSize(S \ {x}, n - 1)} : x \in S}

\* the HTTP exchanges session.get(api_url) can have for a known sns_id: the
\* request raises, or the service answers with a status and a JSON envelope
Responses(sns_id) ==
    {[raised |-> TRUE, status |-> 0, result |-> [success |-> FALSE]],
     [raised |-> FALSE, status |-> 500, result |-> [success |-> FALSE]],
     [raised |-> FALSE, status |-> 200, result |-> [success |-> FALSE]],
     [raised |-> FALSE, status |-> 200, result |-> [success |-> TRUE]],
     [raised |-> FALSE, status |-> 200, result |-> [success |-> TRUE, data |-> << >>]]}
    \cup (IF sns_id \in DOMAIN QueryDb
          THEN {[raised |-> FALSE, status |-> 200,
                 result |-> [success |-> TRUE, data |-> <<QueryDb[sns_id]>>]],
                [raised |-> FALSE, status |-> 200,
                 result |-> [success |-> FALSE, data |-> <<QueryDb[sns_id]>>]],
                [raised |-> FALSE, status |-> 404,
                 result |-> [success |-> TRUE, data |-> <<QueryDb[sns_id]>>]]}
          ELSE {})

\* the HTTP statuses of the query service
LookupStatuses == {200, 201, 404, 500}

\* the JSON envelopes response.json() can return: success absent, true or
\* false; data absent, empty, or a list of one or two records
Envelopes ==
    {s @@ d : s \in {<< >>, "success" :> TRUE, "success" :> FALSE},
              d \in {<< >>, "data" :> << >>, "data" :> <<QueryDb["s1"]>>,
                     "data" :> <<QueryDb["s2"], QueryDb["s1"]>>}}

\* every exchange of session.get and response.json(): raised stands for an
\* exception of the request or of the decoding of the body
AllResponses == [raised : BOOLEAN, status : LookupStatuses, result : Envelopes]

\* the sns_id values poll_queue passes: message_data.get('sns_id')
SnsIds == {None} \cup {Some(s) : s \in DOMAIN QueryDb}

\* time.time() * 1000 at the moment an event is built
NowMs == "now_ms"

\* ------------------------------------------------------------------------
\* Pure functions of MessageStatusProcessor
\* ------------------------------------------------------------------------

\* faulty variant of query_original_message: response.status is not tested
query_without_status(sns_id, response) ==
    IF sns_id = None THEN None
    ELSE IF response.raised THEN None
    ELSE LET result == response.result
         IN  IF GetOr(result, "success", FALSE)
                /\ Len(GetOr(result, "data", << >>)) > 0
             THEN Some(result.data[1])
             ELSE None

\* query_original_message: sns_id is message_data.get('sns_id'); with None
\* the URL concatenation raises TypeError, which the except clause turns
\* into None
query_original_message(sns_id, response) ==
    IF sns_id = None THEN None
    ELSE IF response.raised THEN None
    ELSE IF response.status = 200
         THEN LET result == response.result
              IN  IF GetOr(result, "success", FALSE)
                     /\ Len(GetOr(result, "data", << >>)) > 0
                  THEN Some(result.data[1])
                  ELSE None
         ELSE None

\* faulty variant of should_retry: the DLQ is not a retry source of its own
should_retry_failure_only(message_data, queue_name) ==
    Get(message_data, "delivery_status") = Some("FAILURE")

\* should_retry of poll_queue
should_retry(message_data, queue_name) ==
    Get(message_data, "delivery_status") = Some("FAILURE") \/ queue_name = "DLQ"

\* faulty variant of under_ceiling: the comparison is off by one
under_ceiling_inclusive(current_retry_cnt) == current_retry_cnt <= max_retry_cnt

\* current_retry_cnt < self.max_retry_cnt
under_ceiling(current_retry_cnt) == current_retry_cnt < max_retry_cnt

\* faulty variant of next_retry_cnt: the counter is not incremented
same_retry_cnt(current_retry_cnt) == current_retry_cnt

\* the retry counter handed to send_retry_message
next_retry_cnt(current_retry_cnt) == current_retry_cnt + 1

\* retry_message of send_retry_message
retry_message(original_message, retry_count) ==
    [apid           |-> GetOr(original_message, "ap_id", ""),
     transaction_id |-> GetOr(original_message, "transaction_id", ""),
     token          |-> GetOr(original_message, "token", ""),
     payload        |-> GetOr(original_message, "payload", "{}"),
     retry_cnt      |-> retry_count]

\* faulty variant of process_message: the event starts from an empty dict
\* instead of original_message.copy()
process_message_without_original(message_body, source_queue, original_message) ==
    LET parsed == JsonLoads(message_body)
    IN  IF parsed = None THEN None
        ELSE LET message_data == parsed[1]
             IN  IF ~(required_fields \subseteq DOMAIN message_data) THEN None
                 ELSE Some([sns_id       |-> message_data.sns_id,
                            status       |-> message_data.delivery_status,
                            delivered_ts |-> NowMs,
                            created_at   |-> NowMs,
                            apid         |-> GetOr(original_message, "ap_id", "")])

\* faulty variant of process_message: the update runs the other way round,
\* the original message over the status data
process_message_original_wins(message_body, source_queue, original_message) ==
    LET parsed == JsonLoads(message_body)
    IN  IF parsed = None THEN None
        ELSE LET message_data == parsed[1]
             IN  IF ~(required_fields \subseteq DOMAIN message_data) THEN None
                 ELSE Some(Update([sns_id       |-> message_data.sns_id,
                                   status       |-> message_data.delivery_status,
                                   delivered_ts |-> NowMs,
                                   created_at   |-> NowMs,
                                   apid         |-> GetOr(original_message, "ap_id", "")],
                                  original_message))

\* process_message: the event for the event queue, or None
process_message(message_body, source_queue, original_message) ==
    LET parsed == JsonLoads(message_body)
    IN  IF parsed = None THEN None
        ELSE LET message_data == parsed[1]
             IN  IF ~(required_fields \subseteq DOMAIN message_data) THEN None
                 ELSE Some(Update(original_message,
                        [sns_id       |-> message_data.sns_id,
                         status       |-> message_data.delivery_status,
                         delivered_ts |-> NowMs,
                         created_at   |-> NowMs,
                         apid         |-> GetOr(original_message, "ap_id", "")]))

\* the lookup result makes poll_queue skip the message (line 307)
skip_message(original_message) == ~Truthy(original_message)

\* faulty variant of delete_after_forward: the batch is deleted whatever the
\* forward step returned
delete_regardless(success) == TRUE

\* the batch is deleted after the forward step returned success
delete_after_forward(success) == success

\* ------------------------------------------------------------------------
\* State
\* ------------------------------------------------------------------------

VARIABLES
    sentMsgs,    \* the status messages that were sent to the source queues
    inQueue,     \* the messages their source queue still stores
    inFlight,    \* the messages hidden by a visibility timeout
    eventQueue,  \* what the event queue accepted: [MessageId, MessageBody]
    pushQueue,   \* what the push queue accepted: [MessageId, MessageBody]
    running,     \* MessageStatusProcessor.running
    exited,      \* the process has exited
    pc,          \* queue_name -> position of its poll_queue coroutine
    messages,    \* queue_name -> the batch received
    pending,     \* queue_name -> indices whose query task has not completed
    original_message_list,  \* queue_name -> results of the query tasks, by index
    idx,         \* queue_name -> index of the per-message loop
    processed_messages,     \* queue_name -> events built, each with its source MessageId
    receipt_handles,        \* queue_name -> handles collected for deletion
    sent,        \* queue_name -> events of processed_messages already sent
    deleted,     \* queue_name -> handles of receipt_handles already handled
    retry_log,   \* queue_name -> send_retry_message calls of this cycle
    ack_log,     \* queue_name -> delete_message calls of this cycle
    success,     \* queue_name -> result of send_to_event_queue_async: "none", "ok", "failed"
    error,       \* queue_name -> exception that ended this cycle, "none" if none
    environ,     \* os.environ: name -> value of the required variables
    credentials, \* AWS credentials can be located
    processor,   \* the global processor: "None" or "MessageStatusProcessor"
    exit_status, \* the status the process exited with: None while it runs
    lookup_args, \* <<sns_id, response>> of a call of query_original_message on its own
    lookup_result  \* what that call returned: None before it returns

sqsVars == <<sentMsgs, inQueue, inFlight, eventQueue, pushQueue>>

cycleVars == <<pc, messages, pending, original_message_list, idx, processed_messages,
               receipt_handles, sent, deleted, retry_log, ack_log, success, error>>

startVars == <<environ, credentials, processor, exit_status>>

lookupVars == <<lookup_args, lookup_result>>

vars == <<sentMsgs, inQueue, inFlight, eventQueue, pushQueue, running, exited,
          pc, messages, pending, original_message_list, idx, processed_messages,
          receipt_handles, sent, deleted, retry_log, ack_log, success, error,
          environ, credentials, processor, exit_status, lookup_args, lookup_result>>

Range(f) == {f[i] : i \in DOMAIN f}

Body(m) == Bodies[m.MessageId]

\* the parsed body of a message of a batch (every body of a batch that
\* reaches the query step has been parsed in lines 282-285)
message_data(m) == JsonLoads(Body(m))[1]

\* the messages receive_message may return from a queue
Visible(q) == {m \in inQueue : m.queue = q /\ m \notin inFlight}

\* queue contents: any MaxMsgs messages, each in either source queue
Init ==
    /\ sentMsgs \in SubsetsOfSize(Messages, MaxMsgs)
    /\ inQueue = sentMsgs
    /\ inFlight = {}
    /\ eventQueue = {}
    /\ pushQueue = {}
    /\ running = TRUE
    /\ exited = FALSE
    /\ pc = [q \in QueueNames |-> "idle"]
    /\ messages = [q \in QueueNames |-> << >>]
    /\ pending = [q \in QueueNames |-> {}]
    /\ original_message_list = [q \in QueueNames |-> << >>]
    /\ idx = [q \in QueueNames |-> 0]
    /\ processed_messages = [q \in QueueNames |-> << >>]
    /\ receipt_handles = [q \in QueueNames |-> << >>]
    /\ sent = [q \in QueueNames |-> 0]
    /\ deleted = [q \in QueueNames |-> 0]
    /\ retry_log = [q \in QueueNames |-> << >>]
    /\ ack_log = [q \in QueueNames |-> << >>]
    /\ success = [q \in QueueNames |-> "none"]
    /\ error = [q \in QueueNames |-> "none"]
    /\ environ = [k \in RequiredEnv |-> Some("url")]
    /\ credentials = TRUE
    /\ processor = "MessageStatusProcessor"
    /\ exit_status = None
    /\ lookup_args = << >>
    /\ lookup_result = None

\* ------------------------------------------------------------------------
\* run_async: one iteration of the while loop starts both poll_queue
\* coroutines (asyncio.gather) once both of the previous iteration returned
\* ------------------------------------------------------------------------
\* faulty variant of new_handles: the list outlives the cycle
keep_handles(old) == old

\* receipt_handles = [] of line 295: every cycle starts its own list
new_handles(old) == << >>

\* faulty variant of gather_both: the iteration ends with the first
\* coroutine that returns
gather_first(positions) ==
    \E q \in QueueNames : positions[q] \in {"idle", "done"}

\* await asyncio.gather(poll_queue(...), poll_queue(...)) of lines 395-398
\* has returned: both coroutines of the iteration have
gather_both(positions) ==
    \A q \in QueueNames : positions[q] \in {"idle", "done"}

RunLoop ==
    /\ processor /= "None"
    /\ running /\ ~exited
    /\ gather_both(pc)
    /\ pc' = [q \in QueueNames |-> "poll"]
    /\ messages' = [q \in QueueNames |-> << >>]
    /\ pending' = [q \in QueueNames |-> {}]
    /\ original_message_list' = [q \in QueueNames |-> << >>]
    /\ idx' = [q \in QueueNames |-> 0]
    /\ processed_messages' = [q \in QueueNames |-> << >>]
    /\ receipt_handles' = [q \in QueueNames |-> new_handles(receipt_handles[q])]
    /\ sent' = [q \in QueueNames |-> 0]
    /\ deleted' = [q \in QueueNames |-> 0]
    /\ retry_log' = [q \in QueueNames |-> << >>]
    /\ ack_log' = [q \in QueueNames |-> << >>]
    /\ success' = [q \in QueueNames |-> "none"]
    /\ error' = [q \in QueueNames |-> "none"]
    /\ UNCHANGED <<sqsVars, running, exited>>
    /\ UNCHANGED startVars
    /\ UNCHANGED lookupVars

\* ------------------------------------------------------------------------
\* poll_queue, lines 262-285: receive_message, then the parse of every body
\* ------------------------------------------------------------------------

\* faulty variant of ReceiveFails: the exception is not contained in
\* poll_queue and stops the processor
ReceiveFailsStops(q) ==
    /\ pc[q] = "poll" /\ ~exited
    /\ pc' = [pc EXCEPT ![q] = "done"]
    /\ error' = [error EXCEPT ![q] = "receive_message"]
    /\ running' = FALSE
    /\ UNCHANGED <<sqsVars, exited, messages, pending, original_message_list,
                   idx, processed_messages, receipt_handles, sent, deleted, retry_log,
                   ack_log, success>>
    /\ UNCHANGED startVars
    /\ UNCHANGED lookupVars

\* receive_message raises (ClientError or any other exception; without
\* credentials every call raises NoCredentialsError)
ReceiveFails(q) ==
    /\ pc[q] = "poll" /\ ~exited
    /\ pc' = [pc EXCEPT ![q] = "done"]
    /\ error' = [error EXCEPT ![q] = "receive_message"]
    /\ UNCHANGED <<sqsVars, running, exited, messages, pending, original_message_list,
                   idx, processed_messages, receipt_handles, sent, deleted, retry_log,
                   ack_log, success>>
    /\ UNCHANGED startVars
    /\ UNCHANGED lookupVars

\* faulty variant of ReceiveNothing: an empty queue stops the processor
ReceiveNothingStops(q) ==
    /\ pc[q] = "poll" /\ ~exited
    /\ credentials
    /\ pc' = [pc EXCEPT ![q] = "done"]
    /\ running' = FALSE
    /\ UNCHANGED <<sqsVars, exited, messages, pending, original_message_list,
                   idx, processed_messages, receipt_handles, sent, deleted, retry_log,
                   ack_log, success, error>>
    /\ UNCHANGED startVars
    /\ UNCHANGED lookupVars

\* receive_message, which takes credentials to sign the request, returns no
\* message
ReceiveNothing(q) ==
    /\ pc[q] = "poll" /\ ~exited
    /\ credentials
    /\ pc' = [pc EXCEPT ![q] = "done"]
    /\ UNCHANGED <<sqsVars, running, exited, messages, pending, original_message_list,
                   idx, processed_messages, receipt_handles, sent, deleted, retry_log,
                   ack_log, success, error>>
    /\ UNCHANGED startVars
    /\ UNCHANGED lookupVars

\* receive_message returns a batch, which becomes invisible; a body that
\* json.loads rejects ends the cycle in the except clause of line 342
Receive(q) ==
    /\ pc[q] = "poll" /\ ~exited
    /\ credentials
    /\ \E batch \in Orderings(Visible(q), max_messages) \ {<< >>} :
        /\ inFlight' = inFlight \cup Range(batch)
        /\ messages' = [messages EXCEPT ![q] = batch]
        /\ IF \E i \in DOMAIN batch : JsonLoads(Body(batch[i])) = None
           THEN /\ pc' = [pc EXCEPT ![q] = "done"]
                /\ error' = [error EXCEPT ![q] = "JSONDecodeError"]
                /\ UNCHANGED <<pending, original_message_list>>
           ELSE /\ pc' = [pc EXCEPT ![q] = "query"]
                /\ pending' = [pending EXCEPT ![q] = DOMAIN batch]
                /\ original_message_list' =
                       [original_message_list EXCEPT ![q] = [i \in DOMAIN batch |-> None]]
                /\ UNCHANGED error
    /\ UNCHANGED <<sentMsgs, inQueue, eventQueue, pushQueue, running, exited, idx,
                   processed_messages, receipt_handles, sent, deleted, retry_log,
                   ack_log, success>>
    /\ UNCHANGED startVars
    /\ UNCHANGED lookupVars

\* ------------------------------------------------------------------------
\* poll_queue, lines 287-292: one query task of the gather completes
\* ------------------------------------------------------------------------
\* faulty variant of result_slot: results are appended as the tasks complete
completion_slot(i, completed) == completed + 1

\* asyncio.gather returns the results in the order of its awaitables: the
\* result of the i-th task is original_message_list[i], however many
\* tasks completed before it
result_slot(i, completed) == i

\* faulty variant of gather_returns: the first completed task ends the wait
first_completed(remaining) == TRUE

\* await asyncio.gather(*query_tasks) returns when no task remains
gather_returns(remaining) == remaining = {}

QueryDone(q, i) ==
    /\ pc[q] = "query" /\ ~exited
    /\ i \in pending[q]
    /\ LET sns_id == Get(message_data(messages[q][i]), "sns_id")
       IN  \E response \in Responses(IF sns_id = None THEN "" ELSE sns_id[1]) :
              original_message_list' =
                  [original_message_list EXCEPT
                       ![q][result_slot(i, Len(messages[q]) - Cardinality(pending[q]))] =
                           query_original_message(sns_id, response)]
    /\ pending' = [pending EXCEPT ![q] = @ \ {i}]
    /\ IF gather_returns(pending[q] \ {i})
       THEN /\ pc' = [pc EXCEPT ![q] = "process"]
            /\ idx' = [idx EXCEPT ![q] = 1]
       ELSE UNCHANGED <<pc, idx>>
    /\ UNCHANGED <<sqsVars, running, exited, messages, processed_messages,
                   receipt_handles, sent, deleted, retry_log, ack_log, success, error>>
    /\ UNCHANGED startVars
    /\ UNCHANGED lookupVars

\* ------------------------------------------------------------------------
\* poll_queue, lines 298-330: one iteration of the per-message loop
\* ------------------------------------------------------------------------

\* faulty variant of wants_retry: only dead-lettered reports are retried
retry_only_from_dlq(data, queue_name, original_message) ==
    /\ queue_name = "DLQ"
    /\ under_ceiling(original_message[1].retry_cnt)
    /\ Get(data, "sns_id") /= None
    /\ Truthy(original_message)

\* lines 310-314: a retry is to be sent for this message
wants_retry(data, queue_name, original_message) ==
    /\ should_retry(data, queue_name)
    /\ under_ceiling(original_message[1].retry_cnt)
    /\ Get(data, "sns_id") /= None
    /\ Truthy(original_message)

\* faulty variant of after_retry: a failed retry skips the message
stop_after_failed_retry(retry_success) ==
    IF retry_success THEN "process_message" ELSE "continue"

\* lines 319-325: both outcomes of send_retry_message are only logged, and
\* the loop body goes on to process_message
after_retry(retry_success) == "process_message"

\* faulty variants of collect_handle: only one of the two branches collects
collect_unprocessed_only(handles, processed_message, handle) ==
    IF processed_message = None THEN Append(handles, handle) ELSE handles

collect_processed_only(handles, processed_message, handle) ==
    IF processed_message /= None THEN Append(handles, handle) ELSE handles

\* lines 326-330: the handle is collected whether or not an event was built
collect_handle(handles, processed_message, handle) == Append(handles, handle)

\* faulty variant of skip_handle: the skipped message is collected for deletion
skip_collects_handle(handles, handle) == Append(handles, handle)

\* lines 307-309: the continue leaves receipt_handles as it is
skip_handle(handles, handle) == handles

\* delete_messages_async: the loop of lines 375-386 has work to do or the
\* function returns at once
delete_step(handles) == IF handles /= << >> THEN "delete" ELSE "done"

\* lines 332-339 up to the first await: where the coroutine goes after the loop
after_loop(processed, handles) ==
    IF processed /= << >> THEN "forward" ELSE delete_step(handles)

\* the loop moves to the next message, or leaves the loop after the last
Advance(q, processed, handles) ==
    IF idx[q] < Len(messages[q])
    THEN /\ idx' = [idx EXCEPT ![q] = @ + 1]
         /\ UNCHANGED pc
    ELSE /\ pc' = [pc EXCEPT ![q] = after_loop(processed, handles)]
         /\ UNCHANGED idx

\* line 307: no original message, the message is skipped
SkipMessage(q) ==
    /\ pc[q] = "process" /\ ~exited
    /\ skip_message(original_message_list[q][idx[q]])
    /\ LET handles == skip_handle(receipt_handles[q], messages[q][idx[q]])
       IN  /\ receipt_handles' = [receipt_handles EXCEPT ![q] = handles]
           /\ Advance(q, processed_messages[q], handles)
    /\ UNCHANGED <<sqsVars, running, exited, messages, pending, original_message_list,
                   processed_messages, sent, deleted, retry_log, ack_log, success, error>>
    /\ UNCHANGED startVars
    /\ UNCHANGED lookupVars

\* faulty variant of RetryCntRaises: the TypeError is caught inside the loop
\* body and the loop goes on with the next message
RetryCntSkips(q) ==
    /\ pc[q] = "process" /\ ~exited
    /\ LET m == messages[q][idx[q]]
           original_message == original_message_list[q][idx[q]]
       IN  /\ ~skip_message(original_message)
           /\ should_retry(message_data(m), q)
           /\ Get(original_message[1], "retry_cnt") = None
    /\ error' = [error EXCEPT ![q] = "TypeError"]
    /\ Advance(q, processed_messages[q], receipt_handles[q])
    /\ UNCHANGED <<sqsVars, running, exited, messages, pending, original_message_list,
                   processed_messages, receipt_handles, sent, deleted, retry_log,
                   ack_log, success>>
    /\ UNCHANGED startVars
    /\ UNCHANGED lookupVars

\* line 312: original_message.get('retry_cnt') is None and the comparison
\* with max_retry_cnt raises TypeError, caught in line 342
RetryCntRaises(q) ==
    /\ pc[q] = "process" /\ ~exited
    /\ LET m == messages[q][idx[q]]
           original_message == original_message_list[q][idx[q]]
       IN  /\ ~skip_message(original_message)
           /\ should_retry(message_data(m), q)
           /\ Get(original_message[1], "retry_cnt") = None
    /\ pc' = [pc EXCEPT ![q] = "done"]
    /\ error' = [error EXCEPT ![q] = "TypeError"]
    /\ UNCHANGED <<sqsVars, running, exited, messages, pending, original_message_list,
                   idx, processed_messages, receipt_handles, sent, deleted, retry_log,
                   ack_log, success>>
    /\ UNCHANGED startVars
    /\ UNCHANGED lookupVars

\* lines 310-330: the retry (if one is due; send_message to the push queue
\* succeeds or raises), then process_message and the two lists
ProcessMessage(q) ==
    /\ pc[q] = "process" /\ ~exited
    /\ LET m == messages[q][idx[q]]
           data == message_data(m)
           original_message == original_message_list[q][idx[q]]
       IN  /\ ~skip_message(original_message)
           /\ ~(should_retry(data, q) /\ Get(original_message[1], "retry_cnt") = None)
           /\ LET retry == wants_retry(data, q, original_message)
                  retry_body == retry_message(original_message[1],
                                    next_retry_cnt(original_message[1].retry_cnt))
              IN  \E retry_success \in (IF retry THEN BOOLEAN ELSE {FALSE}) :
                    LET proceed == ~retry \/ after_retry(retry_success) = "process_message"
                        processed_message ==
                            IF proceed
                            THEN process_message(Body(m), q, original_message[1])
                            ELSE None
                        processed ==
                            IF processed_message /= None
                            THEN Append(processed_messages[q],
                                     [MessageId |-> m, event |-> processed_message[1]])
                            ELSE processed_messages[q]
                        handles ==
                            IF proceed
                            THEN collect_handle(receipt_handles[q], processed_message, m)
                            ELSE receipt_handles[q]
                    IN  /\ pushQueue' =
                              IF retry /\ retry_success
                              THEN pushQueue \cup {[MessageId |-> m, MessageBody |-> retry_body]}
                              ELSE pushQueue
                        /\ retry_log' =
                              IF retry
                              THEN [retry_log EXCEPT ![q] =
                                       Append(@, [MessageId |-> m, MessageBody |-> retry_body,
                                                  ok |-> retry_success])]
                              ELSE retry_log
                        /\ processed_messages' = [processed_messages EXCEPT ![q] = processed]
                        /\ receipt_handles' = [receipt_handles EXCEPT ![q] = handles]
                        /\ Advance(q, processed, handles)
    /\ UNCHANGED <<sentMsgs, inQueue, inFlight, eventQueue, running, exited, messages, pending,
                   original_message_list, sent, deleted, ack_log, success, error>>
    /\ UNCHANGED startVars
    /\ UNCHANGED lookupVars

\* ------------------------------------------------------------------------
\* send_to_event_queue_async: one send_message of the loop of lines 236-244
\* ------------------------------------------------------------------------

\* faulty variant of last_event: return True sits inside the for loop
first_event_only(n, events) == n >= 1

\* the for loop of lines 236-244 has sent all of the n = len(messages) events
last_event(n, events) == n = Len(events)

\* the send succeeds; after the last one the function returns True
ForwardSend(q) ==
    /\ pc[q] = "forward" /\ ~exited
    /\ LET msg == processed_messages[q][sent[q] + 1]
       IN  eventQueue' = eventQueue \cup
                            {[MessageId |-> msg.MessageId, MessageBody |-> msg.event]}
    /\ sent' = [sent EXCEPT ![q] = @ + 1]
    /\ IF last_event(sent[q] + 1, processed_messages[q])
       THEN /\ success' = [success EXCEPT ![q] = "ok"]
            /\ pc' = [pc EXCEPT ![q] = IF delete_after_forward(TRUE)
                                        THEN delete_step(receipt_handles[q])
                                        ELSE "done"]
       ELSE UNCHANGED <<success, pc>>
    /\ UNCHANGED <<sentMsgs, inQueue, inFlight, pushQueue, running, exited, messages, pending,
                   original_message_list, idx, processed_messages, receipt_handles,
                   deleted, retry_log, ack_log, error>>
    /\ UNCHANGED startVars
    /\ UNCHANGED lookupVars

\* the send raises: the function returns False (lines 248-253)
ForwardFails(q) ==
    /\ pc[q] = "forward" /\ ~exited
    /\ success' = [success EXCEPT ![q] = "failed"]
    /\ pc' = [pc EXCEPT ![q] = IF delete_after_forward(FALSE)
                                THEN delete_step(receipt_handles[q])
                                ELSE "done"]
    /\ UNCHANGED <<sqsVars, running, exited, messages, pending, original_message_list,
                   idx, processed_messages, receipt_handles, sent, deleted, retry_log,
                   ack_log, error>>
    /\ UNCHANGED startVars
    /\ UNCHANGED lookupVars

\* ------------------------------------------------------------------------
\* delete_messages_async: one delete_message of the loop of lines 375-386;
\* the queue removes the message, or answers ClientError, which is logged
\* ------------------------------------------------------------------------
DeleteMessage(q) ==
    /\ pc[q] = "delete" /\ ~exited
    /\ LET receipt_handle == receipt_handles[q][deleted[q] + 1]
       IN  /\ \E removed \in BOOLEAN :
                 /\ inQueue' = IF removed THEN inQueue \ {receipt_handle} ELSE inQueue
                 /\ inFlight' = IF removed THEN inFlight \ {receipt_handle} ELSE inFlight
           /\ ack_log' = [ack_log EXCEPT ![q] = Append(@, receipt_handle)]
    /\ deleted' = [deleted EXCEPT ![q] = @ + 1]
    /\ pc' = [pc EXCEPT ![q] =
                 IF deleted[q] + 1 = Len(receipt_handles[q]) THEN "done" ELSE "delete"]
    /\ UNCHANGED <<sentMsgs, eventQueue, pushQueue, running, exited, messages, pending,
                   original_message_list, idx, processed_messages, receipt_handles, sent,
                   retry_log, success, error>>
    /\ UNCHANGED startVars
    /\ UNCHANGED lookupVars

\* ------------------------------------------------------------------------
\* signal_handler (SIGTERM, SIGINT): processor.stop(), then sys.exit(0).
\* SystemExit leaves asyncio.run wherever the coroutines stand; their state
\* is gone with the process.
\* Before the processor is constructed, processor.stop() raises
\* AttributeError on None and the process ends with status 1.
\* ------------------------------------------------------------------------
\* faulty variant of Signal: the handler calls stop() and returns
SignalStopsOnly ==
    /\ ~exited
    /\ running
    /\ running' = FALSE
    /\ UNCHANGED <<sqsVars, exited, cycleVars, startVars, lookupVars>>

\* faulty variant of stop: the flag is left as it is
stop_keeps_running(flag) == flag

\* MessageStatusProcessor.stop: self.running = False
stop(flag) == FALSE

Signal ==
    /\ ~exited
    /\ running' = stop(running)
    /\ exited' = TRUE
    /\ pc' = [q \in QueueNames |-> "exited"]
    /\ messages' = [q \in QueueNames |-> << >>]
    /\ pending' = [q \in QueueNames |-> {}]
    /\ original_message_list' = [q \in QueueNames |-> << >>]
    /\ idx' = [q \in QueueNames |-> 0]
    /\ processed_messages' = [q \in QueueNames |-> << >>]
    /\ receipt_handles' = [q \in QueueNames |-> << >>]
    /\ sent' = [q \in QueueNames |-> 0]
    /\ deleted' = [q \in QueueNames |-> 0]
    /\ retry_log' = [q \in QueueNames |-> << >>]
    /\ ack_log' = [q \in QueueNames |-> << >>]
    /\ success' = [q \in QueueNames |-> "none"]
    /\ error' = [q \in QueueNames |-> "none"]
    /\ UNCHANGED sqsVars
    /\ exit_status' = IF processor = "None" THEN Some(1) ELSE Some(0)
    /\ UNCHANGED <<environ, credentials, processor>>
    /\ UNCHANGED lookupVars

\* ------------------------------------------------------------------------
\* SQS: the visibility timeout of a received message runs out. The program
\* observes this only through receive_message, so the step is taken while
\* the coroutine of the message's queue waits in receive_message.
\* ------------------------------------------------------------------------
VisibilityTimeout(m) ==
    /\ m \in inFlight
    /\ pc[m.queue] = "poll"
    /\ inFlight' = inFlight \ {m}
    /\ UNCHANGED <<sentMsgs, inQueue, eventQueue, pushQueue, running, exited, cycleVars>>
    /\ UNCHANGED startVars
    /\ UNCHANGED lookupVars

Next ==
    \/ RunLoop
    \/ \E q \in QueueNames : ReceiveFails(q)
    \/ \E q \in QueueNames : ReceiveNothing(q)
    \/ \E q \in QueueNames : Receive(q)
    \/ \E q \in QueueNames : \E i \in DOMAIN messages[q] : QueryDone(q, i)
    \/ \E q \in QueueNames : SkipMessage(q)
    \/ \E q \in QueueNames : RetryCntRaises(q)
    \/ \E q \in QueueNames : ProcessMessage(q)
    \/ \E q \in QueueNames : ForwardSend(q)
    \/ \E q \in QueueNames : ForwardFails(q)
    \/ \E q \in QueueNames : DeleteMessage(q)
    \/ Signal
    \/ \E m \in sentMsgs : VisibilityTimeout(m)

Spec == Init /\ [][Next]_vars

\* ------------------------------------------------------------------------
\* main: the process from its start, before the processor is constructed
\* ------------------------------------------------------------------------

\* the process has started and main has registered the signal handlers:
\* any environment, credentials present or absent
StartInit ==
    /\ sentMsgs \in SubsetsOfSize(Messages, MaxMsgs)
    /\ inQueue = sentMsgs
    /\ inFlight = {}
    /\ eventQueue = {}
    /\ pushQueue = {}
    /\ running = FALSE
    /\ exited = FALSE
    /\ pc = [q \in QueueNames |-> "idle"]
    /\ messages = [q \in QueueNames |-> << >>]
    /\ pending = [q \in QueueNames |-> {}]
    /\ original_message_list = [q \in QueueNames |-> << >>]
    /\ idx = [q \in QueueNames |-> 0]
    /\ processed_messages = [q \in QueueNames |-> << >>]
    /\ receipt_handles = [q \in QueueNames |-> << >>]
    /\ sent = [q \in QueueNames |-> 0]
    /\ deleted = [q \in QueueNames |-> 0]
    /\ retry_log = [q \in QueueNames |-> << >>]
    /\ ack_log = [q \in QueueNames |-> << >>]
    /\ success = [q \in QueueNames |-> "none"]
    /\ error = [q \in QueueNames |-> "none"]
    /\ environ \in [RequiredEnv -> EnvValues]
    /\ credentials \in BOOLEAN
    /\ processor = "None"
    /\ exit_status = None
    /\ lookup_args = << >>
    /\ lookup_result = None

\* main, lines 433-435, with __init__: boto3.client('sqs') builds a client
\* whether or not credentials can be located (they are looked up when a
\* request is signed); with the environment complete the processor is
\* constructed and run() is entered
Construct ==
    /\ processor = "None" /\ ~exited
    /\ config_complete(environ)
    /\ processor' = "MessageStatusProcessor"
    /\ running' = TRUE
    /\ UNCHANGED <<sqsVars, exited, cycleVars, environ, credentials, exit_status>>
    /\ UNCHANGED lookupVars

\* __init__ raises ValueError (line 46), which main answers with
\* sys.exit(1) (lines 439-441)
ConfigError ==
    /\ processor = "None" /\ ~exited
    /\ ~config_complete(environ)
    /\ exited' = TRUE
    /\ exit_status' = Some(1)
    /\ pc' = [q \in QueueNames |-> "exited"]
    /\ UNCHANGED <<sqsVars, running, messages, pending, original_message_list, idx,
                   processed_messages, receipt_handles, sent, deleted, retry_log,
                   ack_log, success, error, environ, credentials, processor>>
    /\ UNCHANGED lookupVars

StartNext ==
    \/ Construct
    \/ ConfigError
    \/ Next

StartSpec == StartInit /\ [][StartNext]_vars

\* ------------------------------------------------------------------------
\* The processor left running: no signal arrives, every call returns,
\* visibility timeouts run out, and the query service, the event queue and
\* the source queues do not fail for ever
\* ------------------------------------------------------------------------

\* a step of q's poll_queue coroutine
CycleStep(q) ==
    \/ ReceiveFails(q)
    \/ ReceiveNothing(q)
    \/ Receive(q)
    \/ \E i \in DOMAIN messages[q] : QueryDone(q, i)
    \/ SkipMessage(q)
    \/ RetryCntRaises(q)
    \/ ProcessMessage(q)
    \/ ForwardSend(q)
    \/ ForwardFails(q)
    \/ DeleteMessage(q)

\* the query task of the i-th message returns an original message
QueryFinds(q, i) == QueryDone(q, i) /\ Truthy(original_message_list'[q][i])

\* delete_message removes the message
DeleteRemoves(q) == DeleteMessage(q) /\ inQueue' /= inQueue

LiveNext ==
    \/ RunLoop
    \/ \E q \in QueueNames : CycleStep(q)
    \/ \E m \in sentMsgs : VisibilityTimeout(m)

\* the messages of the runs checked for progress: a retriable report, a
\* body that is no JSON and a report whose original message has no
\* retry_cnt, all in the StatusUpdateQueue
LiveMessages ==
    {[queue |-> "StatusUpdateQueue", MessageId |-> id] :
        id \in {"failure-s1", "not-json", "failure-s3"}}

LiveInit ==
    /\ sentMsgs \in SubsetsOfSize(LiveMessages, MaxMsgs)
    /\ inQueue = sentMsgs
    /\ inFlight = {}
    /\ eventQueue = {}
    /\ pushQueue = {}
    /\ running = TRUE
    /\ exited = FALSE
    /\ pc = [q \in QueueNames |-> "idle"]
    /\ messages = [q \in QueueNames |-> << >>]
    /\ pending = [q \in QueueNames |-> {}]
    /\ original_message_list = [q \in QueueNames |-> << >>]
    /\ idx = [q \in QueueNames |-> 0]
    /\ processed_messages = [q \in QueueNames |-> << >>]
    /\ receipt_handles = [q \in QueueNames |-> << >>]
    /\ sent = [q \in QueueNames |-> 0]
    /\ deleted = [q \in QueueNames |-> 0]
    /\ retry_log = [q \in QueueNames |-> << >>]
    /\ ack_log = [q \in QueueNames |-> << >>]
    /\ success = [q \in QueueNames |-> "none"]
    /\ error = [q \in QueueNames |-> "none"]
    /\ environ = [k \in RequiredEnv |-> Some("url")]
    /\ credentials = TRUE
    /\ processor = "MessageStatusProcessor"
    /\ exit_status = None
    /\ lookup_args = << >>
    /\ lookup_result = None

Fairness ==
    /\ WF_vars(RunLoop)
    /\ \A q \in QueueNames :
          /\ WF_vars(CycleStep(q))
          /\ SF_vars(Receive(q))
          /\ SF_vars(ForwardSend(q))
          /\ SF_vars(DeleteRemoves(q))
          /\ \A i \in 1 .. MaxMsgs : SF_vars(QueryFinds(q, i))
    /\ \A m \in LiveMessages : SF_vars(VisibilityTimeout(m))

LiveSpec == LiveInit /\ [][LiveNext]_vars /\ Fairness

\* ------------------------------------------------------------------------
\* query_original_message on its own: one call, for any sns_id and any
\* exchange with the query service
\* ------------------------------------------------------------------------
LookupInit ==
    /\ sentMsgs = {}
    /\ inQueue = {}
    /\ inFlight = {}
    /\ eventQueue = {}
    /\ pushQueue = {}
    /\ running = TRUE
    /\ exited = FALSE
    /\ pc = [q \in QueueNames |-> "idle"]
    /\ messages = [q \in QueueNames |-> << >>]
    /\ pending = [q \in QueueNames |-> {}]
    /\ original_message_list = [q \in QueueNames |-> << >>]
    /\ idx = [q \in QueueNames |-> 0]
    /\ processed_messages = [q \in QueueNames |-> << >>]
    /\ receipt_handles = [q \in QueueNames |-> << >>]
    /\ sent = [q \in QueueNames |-> 0]
    /\ deleted = [q \in QueueNames |-> 0]
    /\ retry_log = [q \in QueueNames |-> << >>]
    /\ ack_log = [q \in QueueNames |-> << >>]
    /\ success = [q \in QueueNames |-> "none"]
    /\ error = [q \in QueueNames |-> "none"]
    /\ environ = [k \in RequiredEnv |-> Some("url")]
    /\ credentials = TRUE
    /\ processor = "MessageStatusProcessor"
    /\ exit_status = None
    /\ lookup_args \in SnsIds \X AllResponses
    /\ lookup_result = None

\* the call returns
Lookup ==
    /\ lookup_result = None
    /\ lookup_result' = Some(query_original_message(lookup_args[1], lookup_args[2]))
    /\ UNCHANGED <<sqsVars, running, exited, cycleVars, startVars, lookup_args>>

LookupNext == Lookup

LookupSpec == LookupInit /\ [][LookupNext]_vars

\* ------------------------------------------------------------------------
\* Vocabulary of the properties
\* ------------------------------------------------------------------------

\* the body is JSON and carries every required field
WellFormed(m) == Body(m).json /\ required_fields \subseteq DOMAIN Body(m).obj

\* the body is JSON and lacks a required field
Malformed(m) == Body(m).json /\ ~(required_fields \subseteq DOMAIN Body(m).obj)

\* the body is no JSON
Unparsable(m) == ~Body(m).json

\* the query task of the i-th message of q's batch returned an original message
Found(q, i) ==
    /\ i \in DOMAIN original_message_list[q]
    /\ pending[q] = {}
    /\ Truthy(original_message_list[q][i])

\* the query task of the i-th message of q's batch returned None
NotFound(q, i) ==
    /\ i \in DOMAIN original_message_list[q]
    /\ pending[q] = {}
    /\ ~Truthy(original_message_list[q][i])

\* the per-message loop of q's cycle has finished its i-th iteration
Handled(q, i) ==
    /\ i \in DOMAIN original_message_list[q]
    /\ pending[q] = {}
    /\ \/ i < idx[q]
       \/ i = idx[q] /\ pc[q] \in {"forward", "delete", "done"} /\ error[q] = "none"

\* this cycle of q called delete_message with the handle of m
Acked(q, m) == m \in Range(ack_log[q])

\* the send_retry_message calls this cycle of q made for m
RetriesFor(q, m) == {k \in DOMAIN retry_log[q] : retry_log[q][k].MessageId = m}

\* the entries of this cycle's forward set built from m
ProcessedFor(q, m) ==
    {k \in DOMAIN processed_messages[q] : processed_messages[q][k].MessageId = m}

\* the messages with an entry in this cycle's forward set
ForwardEligible(q) ==
    {processed_messages[q][k].MessageId : k \in DOMAIN processed_messages[q]}

\* the event queue holds an event built from m
Forwarded(m) ==
    \E e \in eventQueue :
        /\ e.MessageId = m
        /\ e.MessageBody.sns_id = Body(m).obj.sns_id
        /\ e.MessageBody.status = Body(m).obj.delivery_status

\* the report of m asks for a retry: FAILURE, or any report from the DLQ
RetryCandidate(q, m) ==
    q = "DLQ" \/ Get(Body(m).obj, "delivery_status") = Some("FAILURE")

\* ------------------------------------------------------------------------
\* Properties
\* ------------------------------------------------------------------------

\* C1: a well-formed message is acknowledged (delete_message called for it,
\* or the message gone from its queue) only when an event built from it has
\* already been accepted by the event queue.
C1_AckOnlyAfterForward ==
    \A m \in sentMsgs :
        (WellFormed(m) /\ (m \notin inQueue \/ \E q \in QueueNames : Acked(q, m)))
            => Forwarded(m)

\* C1 witness: a well-formed message has been deleted from its source queue.
C1_Witness ==
    \E m \in sentMsgs : WellFormed(m) /\ m \notin inQueue /\ Forwarded(m)

C3_NotFoundUntouched ==
    \A q \in QueueNames : \A i \in DOMAIN messages[q] :
        NotFound(q, i) =>
            LET m == messages[q][i]
            IN  /\ m \notin Range(receipt_handles[q])
                /\ ~Acked(q, m)
                /\ ProcessedFor(q, m) = {}
                /\ RetriesFor(q, m) = {}
                /\ m \in inQueue

\* C3 witness: a finished cycle that skipped one message of its batch and
\* acknowledged another.
C3_Witness ==
    \E q \in QueueNames : \E i \in DOMAIN messages[q] :
        /\ pc[q] = "done"
        /\ NotFound(q, i)
        /\ ack_log[q] /= << >>

MixedBatch(q, i) ==
    /\ pc[q] = "done" /\ error[q] = "none"
    /\ processed_messages[q] /= << >>
    /\ i \in DOMAIN messages[q]
    /\ Malformed(messages[q][i])
    /\ Found(q, i)

C6_UnparsableDrained ==
    \A q \in QueueNames : \A i \in DOMAIN messages[q] :
        (pc[q] = "done" /\ Unparsable(messages[q][i])) =>
            /\ Acked(q, messages[q][i])
            /\ ProcessedFor(q, messages[q][i]) = {}

\* the original message the query task of the i-th message returned
Original(q, i) == original_message_list[q][i][1]

\* C7: for a message the loop has handled and whose lookup succeeded, a
\* retry was submitted exactly when the message came from the DLQ or its
\* delivery_status is FAILURE, and retry_cnt is below max_retry_cnt; for the
\* DLQ the status does not matter.
C7_ShouldRetry ==
    \A q \in QueueNames : \A i \in DOMAIN messages[q] :
        (Handled(q, i) /\ Found(q, i)) =>
            LET m == messages[q][i]
                status == Get(Body(m).obj, "delivery_status")
            IN  (RetriesFor(q, m) /= {})
                    <=> /\ (q = "DLQ" \/ (q = "StatusUpdateQueue" /\ status = Some("FAILURE")))
                        /\ Original(q, i).retry_cnt < max_retry_cnt

\* C7 witness: the DLQ cycle submitted a retry for a report whose
\* delivery_status is SUCCESS.
C7_Witness ==
    \E i \in DOMAIN messages["DLQ"] :
        /\ Handled("DLQ", i) /\ Found("DLQ", i)
        /\ Get(Body(messages["DLQ"][i]).obj, "delivery_status") = Some("SUCCESS")
        /\ RetriesFor("DLQ", messages["DLQ"][i]) /= {}

\* the i-th message of q's batch has been handled, its lookup succeeded and
\* its report asks for a retry
RetryCase(q, i) ==
    /\ i \in DOMAIN messages[q]
    /\ Handled(q, i)
    /\ Found(q, i)
    /\ RetryCandidate(q, messages[q][i])

\* the forward set of q's cycle holds the merge of the i-th message's
\* original message and status report
EventBuilt(q, i) ==
    \E k \in ProcessedFor(q, messages[q][i]) :
        LET event == processed_messages[q][k].event
        IN  /\ event.status = Body(messages[q][i]).obj.delivery_status
            /\ event.sns_id = Body(messages[q][i]).obj.sns_id
            /\ event.transaction_id = Original(q, i).transaction_id

C9_OneRetryIncremented ==
    /\ \A q \in QueueNames : \A i \in DOMAIN messages[q] :
          (RetryCase(q, i) /\ Original(q, i).retry_cnt < max_retry_cnt) =>
              /\ Cardinality(RetriesFor(q, messages[q][i])) = 1
              /\ \A k \in RetriesFor(q, messages[q][i]) :
                    LET body == retry_log[q][k].MessageBody
                    IN  /\ body.retry_cnt = Original(q, i).retry_cnt + 1
                        /\ body.transaction_id = Original(q, i).transaction_id
                        /\ body.token = Original(q, i).token
                        /\ body.payload = Original(q, i).payload
    /\ \A r \in pushQueue :
          LET original == QueryDb[Body(r.MessageId).obj.sns_id]
          IN  /\ r.MessageBody.retry_cnt = original.retry_cnt + 1
              /\ r.MessageBody.transaction_id = original.transaction_id
              /\ r.MessageBody.token = original.token
              /\ r.MessageBody.payload = original.payload

\* C9 witness: the push queue accepted the one retry of a message.
C9_Witness ==
    \E q \in QueueNames : \E i \in DOMAIN messages[q] :
        /\ RetryCase(q, i)
        /\ \E k \in RetriesFor(q, messages[q][i]) : retry_log[q][k].ok
        /\ \E r \in pushQueue : r.MessageId = messages[q][i] /\ r.MessageBody.retry_cnt = 2

\* send_retry_message returned False for the i-th message of q's batch
RetryFailed(q, i) ==
    /\ i \in DOMAIN messages[q]
    /\ \E k \in RetriesFor(q, messages[q][i]) : ~retry_log[q][k].ok

UnderCeilingCase(q, i) ==
    /\ RetryCase(q, i)
    /\ "retry_cnt" \in DOMAIN Original(q, i)
    /\ Original(q, i).retry_cnt < max_retry_cnt

\* C11 as stated: a retry candidate under the ceiling that has been
\* acknowledged has a retry message in the push queue.
C11_RetryDeliveredBeforeAck ==
    \A q \in QueueNames : \A i \in DOMAIN messages[q] :
        (UnderCeilingCase(q, i) /\ Acked(q, messages[q][i])) =>
            \E r \in pushQueue : r.MessageId = messages[q][i]

\* C11 amended: a retry candidate under the ceiling that has been
\* acknowledged has had send_retry_message called for it earlier in the
\* cycle; the call may have returned False.
C11_RetryAttemptedBeforeAck ==
    \A q \in QueueNames : \A i \in DOMAIN messages[q] :
        (UnderCeilingCase(q, i) /\ Acked(q, messages[q][i])) =>
            RetriesFor(q, messages[q][i]) /= {}

\* C11 witness: a retry candidate whose only retry submission failed has
\* been acknowledged and deleted.
C11_Witness ==
    \E q \in QueueNames : \E i \in DOMAIN messages[q] :
        /\ UnderCeilingCase(q, i)
        /\ Acked(q, messages[q][i])
        /\ messages[q][i] \notin inQueue
        /\ RetryFailed(q, i)

\* the event queue holds the k-th event of q's forward set
Delivered(q, k) ==
    [MessageId |-> processed_messages[q][k].MessageId,
     MessageBody |-> processed_messages[q][k].event] \in eventQueue

\* C12 as stated: send_to_event_queue_async returns True only with every
\* event of the batch sent, and when it returns False it has sent none.
C12_ForwardAllOrNothing ==
    \A q \in QueueNames :
        /\ success[q] = "ok" =>
               /\ sent[q] = Len(processed_messages[q])
               /\ \A k \in DOMAIN processed_messages[q] : Delivered(q, k)
        /\ success[q] = "failed" => sent[q] = 0

\* C12 amended: True is returned only with every event of the batch sent;
\* when False is returned the events before the failing send, a proper
\* prefix of the batch, have been sent and stay in the event queue.
C12_ForwardAllOrPrefix ==
    \A q \in QueueNames :
        /\ success[q] = "ok" =>
               /\ sent[q] = Len(processed_messages[q])
               /\ \A k \in DOMAIN processed_messages[q] : Delivered(q, k)
        /\ success[q] = "failed" =>
               /\ sent[q] < Len(processed_messages[q])
               /\ \A k \in 1 .. sent[q] : Delivered(q, k)

\* C12 witness: a forward step that failed at its second event, the first
\* one delivered.
C12_Witness ==
    \E q \in QueueNames :
        /\ success[q] = "failed"
        /\ sent[q] = 1
        /\ Len(processed_messages[q]) = 2
        /\ Delivered(q, 1)

\* the keys process_message writes from the clock
clock_fields == {"delivered_ts", "created_at"}

\* the merged fields of an event: everything but the two timestamps
MergedFields(event) == [k \in (DOMAIN event) \ clock_fields |-> event[k]]

\* the merged fields of the event of m: the original message of the
\* report's sns_id, with the report's sns_id and delivery_status and the
\* original's ap_id
ExpectedMerge(m) ==
    LET report == Body(m).obj
        original == QueryDb[report.sns_id]
    IN  Update(original, [sns_id |-> report.sns_id,
                          status |-> report.delivery_status,
                          apid   |-> original.ap_id])

\* C13: every event built for a message, in whichever cycle, and every
\* event the event queue holds for it carry the same merged fields, those
\* of the original message and the report's status: a redelivered report
\* gives a duplicate of the event already delivered; and a well-formed
\* message that is gone from its source queue has its event in the event
\* queue.
C13_RedeliveryIdempotent ==
    /\ \A q \in QueueNames : \A k \in DOMAIN processed_messages[q] :
          LET m == processed_messages[q][k].MessageId
              built == processed_messages[q][k].event
          IN  /\ MergedFields(built) = ExpectedMerge(m)
              /\ \A e \in eventQueue :
                    e.MessageId = m => MergedFields(e.MessageBody) = MergedFields(built)
    /\ \A e \in eventQueue : MergedFields(e.MessageBody) = ExpectedMerge(e.MessageId)
    /\ \A m \in sentMsgs :
          (WellFormed(m) /\ m \notin inQueue) =>
              \E e \in eventQueue : e.MessageId = m

\* C13 witness: a cycle is about to forward the event of a message whose
\* event an earlier cycle has already delivered.
C13_Witness ==
    \E q \in QueueNames :
        /\ pc[q] = "forward" /\ sent[q] = 0
        /\ \E k \in DOMAIN processed_messages[q] :
              /\ Forwarded(processed_messages[q][k].MessageId)
              /\ processed_messages[q][k].MessageId \in inQueue

\* a step that starts a polling cycle on q: receive_message is called
StartsCycle(q) == pc[q] /= "poll" /\ pc'[q] = "poll"

\* C14: the signal handler leaves the running flag False; with the flag
\* False no step starts a polling cycle on either queue, and the flag stays
\* False.
C14_StoppingIsTerminal ==
    [][/\ exited' => ~running'
       /\ ~running => (~running' /\ \A q \in QueueNames : ~StartsCycle(q))
       /\ exited => \A q \in QueueNames : ~StartsCycle(q)]_vars

\* C14 witness: the signal has arrived after a cycle delivered an event,
\* with messages left in a source queue that no cycle will poll.
C14_Witness ==
    /\ exited /\ ~running
    /\ eventQueue /= {}
    /\ inQueue /= {}
    /\ \A q \in QueueNames : pc[q] = "exited"

\* a polling cycle of q is in flight: poll_queue has been started and has
\* not returned
InFlightCycle(q) == pc[q] \in {"poll", "query", "process", "forward", "delete"}

\* C15 as stated: the process exits only with no cycle in flight; a cycle
\* that is in flight when the signal arrives is run to its end first.
C15_ExitAfterCycles ==
    [][(~exited /\ exited') => \A q \in QueueNames : ~InFlightCycle(q)]_vars

\* receive_message raised in q's cycle
PollFailed(q) == error[q] = "receive_message"

\* C16: in a cycle whose receive_message raised, poll_queue returns with no
\* batch, no query task, no send_retry_message call, no forward and no
\* delete_message call; the processor keeps running, and once both
\* coroutines have returned the next iteration of run_async, which polls
\* both queues again, can start.
C16_PollFailureContained ==
    \A q \in QueueNames :
        PollFailed(q) =>
            /\ pc[q] = "done"
            /\ messages[q] = << >>
            /\ original_message_list[q] = << >> /\ pending[q] = {}
            /\ retry_log[q] = << >>
            /\ processed_messages[q] = << >> /\ sent[q] = 0 /\ success[q] = "none"
            /\ receipt_handles[q] = << >> /\ ack_log[q] = << >>
            /\ running /\ ~exited
            /\ (\A r \in QueueNames : pc[r] = "done") => ENABLED RunLoop

\* C16 witness: receive_message raised for one queue while the cycle of
\* the other queue forwarded and acknowledged a message; both have returned.
C16_Witness ==
    \E q, r \in QueueNames :
        /\ PollFailed(q) /\ pc[q] = "done"
        /\ pc[r] = "done" /\ success[r] = "ok" /\ ack_log[r] /= << >>
        /\ \E m \in inQueue : m.queue = q

\* a required environment variable is unset or empty
MissingConfig == \E k \in RequiredEnv : environ[k] \in {None, Some("")}

\* C17: with a required environment variable missing, no processor is
\* constructed, the running flag is never set, no coroutine leaves its
\* start, nothing is received, sent or deleted, the only step main can
\* take is the exit, and the exit status is 1.
C17_PartialConfigExits ==
    MissingConfig =>
        /\ processor = "None" /\ ~running
        /\ \A q \in QueueNames : pc[q] \in {"idle", "exited"}
        /\ inQueue = sentMsgs /\ inFlight = {} /\ eventQueue = {} /\ pushQueue = {}
        /\ ~exited => (ENABLED ConfigError /\ ~ENABLED Construct /\ ~ENABLED RunLoop)
        /\ exited => exit_status = Some(1)

\* C17 witness: the process has exited with status 1 with QUERY_DB_URL
\* alone missing.
C17_Witness ==
    /\ exited /\ exit_status = Some(1)
    /\ environ["QUERY_DB_URL"] = None
    /\ \A k \in RequiredEnv \ {"QUERY_DB_URL"} : environ[k] = Some("url")

\* C18 as stated: without credentials no polling cycle is ever started,
\* and the process exits with status 1.
C18_NoCredentialsExits ==
    ~credentials =>
        /\ \A q \in QueueNames : pc[q] \in {"idle", "exited"}
        /\ exited => exit_status = Some(1)
        /\ ~exited => ~ENABLED RunLoop

\* C19: while a query task of q's batch has not completed, the cycle has
\* made no send_retry_message call, built and sent no event, collected no
\* handle and called no delete_message, and the per-message loop has not
\* started.
C19_LookupBarrier ==
    \A q \in QueueNames :
        pending[q] /= {} =>
            /\ pc[q] = "query" /\ idx[q] = 0
            /\ retry_log[q] = << >>
            /\ processed_messages[q] = << >> /\ sent[q] = 0 /\ success[q] = "none"
            /\ receipt_handles[q] = << >> /\ ack_log[q] = << >> /\ deleted[q] = 0

\* C19 witness: the lookup of the second message has completed, and found
\* its original message, while the lookup of the first is still running.
C19_Witness ==
    \E q \in QueueNames :
        /\ pending[q] = {1}
        /\ Len(messages[q]) = 2
        /\ Truthy(original_message_list[q][2])

\* the record the query service holds for the sns_id of m's report
OwnRecord(m) == QueryDb[Body(m).obj.sns_id]

\* C20: whatever order the query tasks complete in, the result held for
\* the i-th message of a batch is None or the record of that message's own
\* sns_id; every retry made for the message carries that record's
\* transaction_id and retry_cnt + 1 and is made only with that record
\* under the ceiling, and every event built for it carries that record's
\* transaction_id and the report's own sns_id.
C20_JoinedByIndex ==
    \A q \in QueueNames : \A i \in DOMAIN original_message_list[q] :
        LET m == messages[q][i]
        IN  /\ original_message_list[q][i] /= None =>
                  /\ "sns_id" \in DOMAIN Body(m).obj
                  /\ original_message_list[q][i][1] = OwnRecord(m)
            /\ \A k \in RetriesFor(q, m) :
                  /\ retry_log[q][k].MessageBody.transaction_id = OwnRecord(m).transaction_id
                  /\ retry_log[q][k].MessageBody.retry_cnt = OwnRecord(m).retry_cnt + 1
                  /\ OwnRecord(m).retry_cnt < max_retry_cnt
            /\ \A k \in ProcessedFor(q, m) :
                  /\ processed_messages[q][k].event.transaction_id =
                         OwnRecord(m).transaction_id
                  /\ processed_messages[q][k].event.sns_id = Body(m).obj.sns_id

\* C20 witness: a batch of two reports with different sns_id, both found:
\* the first got a retry, the second, at the ceiling, none, and an event
\* was built for each.
C20_Witness ==
    \E q \in QueueNames :
        /\ Len(messages[q]) = 2
        /\ Found(q, 1) /\ Found(q, 2)
        /\ OwnRecord(messages[q][1]) /= OwnRecord(messages[q][2])
        /\ RetriesFor(q, messages[q][1]) /= {}
        /\ RetriesFor(q, messages[q][2]) = {}
        /\ ProcessedFor(q, messages[q][1]) /= {}
        /\ ProcessedFor(q, messages[q][2]) /= {}

\* C21 as stated: a queue whose cycle has returned can start its next
\* cycle whatever the coroutine of the other queue is doing.
C21_IndependentCycles ==
    \A q \in QueueNames :
        (pc[q] = "done" /\ running /\ ~exited) => ENABLED RunLoop

\* C21 amended: the two cycles of one iteration run concurrently, but a
\* step that starts a cycle on one queue starts one on both, and is taken
\* only when no cycle of either queue is in flight.
C21_CyclesInLockstep ==
    [][\A q \in QueueNames :
          StartsCycle(q) =>
              \A r \in QueueNames : ~InFlightCycle(r) /\ pc'[r] = "poll"]_vars

\* C21 witness: the cycle of one queue has returned and waits, the
\* processor running, while the cycle of the other queue deletes a message.
C21_Witness ==
    \E q, r \in QueueNames :
        /\ pc[q] = "done" /\ running /\ ~exited
        /\ pc[r] = "delete"
        /\ \E m \in Visible(q) : TRUE

\* C22: every handle a cycle collects and every handle it calls
\* delete_message for belongs to a message of the batch this cycle
\* received, from the queue this cycle polled.
C22_AcksOwnBatchOnly ==
    \A q \in QueueNames :
        \A m \in Range(receipt_handles[q]) \cup Range(ack_log[q]) :
            /\ m.queue = q
            /\ m \in Range(messages[q])

\* C22 witness: a cycle has called delete_message for the message of its
\* batch while a message of the same queue that an earlier cycle received
\* is still invisible and in the queue.
C22_Witness ==
    \E q \in QueueNames :
        /\ ack_log[q] /= << >>
        /\ \E m \in inFlight : m.queue = q /\ m \notin Range(messages[q])

\* a step in which receive_message of q's cycle returns no message and
\* poll_queue returns
EmptyPoll(q) ==
    /\ pc[q] = "poll" /\ pc'[q] = "done"
    /\ messages'[q] = << >> /\ error'[q] = "none"

\* q's cycle has returned from an empty poll
EmptyCycle(q) == pc[q] = "done" /\ messages[q] = << >> /\ error[q] = "none"

\* C23: the step of an empty poll changes nothing but the position of the
\* coroutine: the queues, the running flag and the other coroutine are as
\* before, and the cycle ends with no query task, no send_retry_message
\* call, no event built or sent, no handle collected and no delete_message
\* call.
C23_EmptyPollNoOp ==
    [][\A q \in QueueNames :
          EmptyPoll(q) =>
              /\ UNCHANGED <<sentMsgs, inQueue, inFlight, eventQueue, pushQueue>>
              /\ UNCHANGED <<running, exited>>
              /\ \A r \in QueueNames \ {q} : pc'[r] = pc[r]
              /\ original_message_list'[q] = << >> /\ pending'[q] = {}
              /\ retry_log'[q] = << >>
              /\ processed_messages'[q] = << >> /\ sent'[q] = 0 /\ success'[q] = "none"
              /\ receipt_handles'[q] = << >> /\ ack_log'[q] = << >>]_vars

\* C23 witness: a cycle has returned from an empty poll while events of
\* other cycles are in the event queue and a message waits in a queue.
C23_Witness ==
    \E q \in QueueNames :
        /\ EmptyCycle(q)
        /\ eventQueue /= {}
        /\ inQueue /= {}

\* C24: every entry of a cycle's forward set belongs to a message of the
\* batch whose query task returned an original message, and its event
\* carries that original message's transaction_id, token and payload and,
\* as status, the delivery_status of the message's report.
C24_EventIsMerge ==
    \A q \in QueueNames : \A k \in DOMAIN processed_messages[q] :
        LET event == processed_messages[q][k].event
        IN  \E i \in DOMAIN messages[q] :
               /\ messages[q][i] = processed_messages[q][k].MessageId
               /\ Found(q, i)
               /\ event.transaction_id = Original(q, i).transaction_id
               /\ event.token = Original(q, i).token
               /\ event.payload = Original(q, i).payload
               /\ event.status = Body(messages[q][i]).obj.delivery_status

\* C24 witness: the forward set holds the event of a SUCCESS report whose
\* original message has a status of its own.
C24_Witness ==
    \E q \in QueueNames : \E i \in DOMAIN messages[q] :
        /\ Found(q, i)
        /\ "status" \in DOMAIN Original(q, i)
        /\ EventBuilt(q, i)
        /\ Body(messages[q][i]).obj.delivery_status = "SUCCESS"

\* the exchange is a 200 answer whose envelope has success true and a
\* non-empty data list
GoodAnswer(response) ==
    /\ ~response.raised
    /\ response.status = 200
    /\ "success" \in DOMAIN response.result /\ response.result.success
    /\ "data" \in DOMAIN response.result /\ response.result.data /= << >>

\* C25: a call of query_original_message that has returned gave the first
\* element of data when it was made with an sns_id and got a 200 answer
\* with success true and non-empty data, and None for every other exchange
\* (another status, success false or absent, data empty or absent, an
\* exception of the request or of the decoding, no sns_id).
C25_LookupFirstOrNotFound ==
    lookup_result /= None =>
        lookup_result[1] =
            IF lookup_args[1] /= None /\ GoodAnswer(lookup_args[2])
            THEN Some(Head(lookup_args[2].result.data))
            ELSE None

\* C25 witness: a call answered with two records has returned the first.
C25_Witness ==
    /\ lookup_result = Some(Some(QueryDb["s2"]))
    /\ Len(lookup_args[2].result.data) = 2

\* C26: once the signal handler has run (the running flag is False), the
\* process has exited, with status 0: both coroutines are gone and no step
\* of the program is left to take.
C26_SignalTerminates ==
    ~running =>
        /\ exited
        /\ exit_status = Some(0)
        /\ \A q \in QueueNames : pc[q] = "exited"
        /\ ~ENABLED Next

\* C26 witness: the process has exited with status 0 while a batch it had
\* received was still invisible in its queue.
C26_Witness ==
    /\ exited /\ exit_status = Some(0)
    /\ inFlight /= {}
    /\ pushQueue /= {}

\* m is a well-formed report and the record of its sns_id has a retry_cnt
Retriable(m) ==
    IF WellFormed(m) THEN "retry_cnt" \in DOMAIN OwnRecord(m) ELSE FALSE

\* C27 as stated: with the processor left running and no call failing for
\* ever, every well-formed report that was sent to a source queue, its
\* original message carrying a retry_cnt, is eventually forwarded and
\* deleted from its queue.
C27_WellFormedEventuallyForwarded ==
    \A m \in {l \in LiveMessages : Retriable(l)} :
        (m \in sentMsgs) ~> (Forwarded(m) /\ m \notin inQueue)

\* the retry counts an original message can carry, up to one over the ceiling
RetryCounts == 0 .. max_retry_cnt + 1

\* C28: every send_retry_message call made in a cycle, and every retry
\* message in the push queue, carries a retry_cnt between 1 and
\* max_retry_cnt; so does the retry for every retry count under the ceiling.
C28_RetryCounterBounded ==
    /\ \A q \in QueueNames : \A k \in DOMAIN retry_log[q] :
          retry_log[q][k].MessageBody.retry_cnt \in 1 .. max_retry_cnt
    /\ \A r \in pushQueue : r.MessageBody.retry_cnt \in 1 .. max_retry_cnt
    /\ \A c \in RetryCounts :
          under_ceiling(c) => next_retry_cnt(c) \in 1 .. max_retry_cnt

\* C28 witness: one cycle has handled a retry candidate at the ceiling
\* without a retry and sent the retry of a candidate under the ceiling.
C28_Witness ==
    \E q \in QueueNames : \E i, j \in DOMAIN messages[q] :
        /\ RetryCase(q, i)
        /\ Original(q, i).retry_cnt >= max_retry_cnt
        /\ UnderCeilingCase(q, j)
        /\ \E r \in pushQueue :
              r.MessageId = messages[q][j] /\ r.MessageBody.retry_cnt <= max_retry_cnt

\* C29 as stated: no send_retry_message call is made in a cycle for a
\* message whose body is JSON and lacks a required field, and the push queue
\* holds no retry message made for one.
C29_NoRetryForMalformed ==
    /\ \A q \in QueueNames : \A i \in DOMAIN messages[q] :
          Malformed(messages[q][i]) => RetriesFor(q, messages[q][i]) = {}
    /\ \A r \in pushQueue : ~Malformed(r.MessageId)

\* the cycle of q ended in the except clause of line 342 with the TypeError
\* of the retry_cnt comparison
LoopRaised(q) == error[q] = "TypeError"

\* C30: when the per-message loop of a cycle raised, the cycle is over: it
\* sent no event and called delete_message for no message, every message of
\* the batch is still in its queue, the retry messages sent earlier in the
\* cycle are in the push queue, and the processor is still running, ready
\* for the next iteration once the other queue's cycle has returned.
C30_RaiseAbandonsCycle ==
    \A q \in QueueNames :
        LoopRaised(q) =>
            /\ pc[q] = "done"
            /\ sent[q] = 0 /\ success[q] = "none"
            /\ deleted[q] = 0 /\ ack_log[q] = << >>
            /\ \A i \in DOMAIN messages[q] : messages[q][i] \in inQueue \cup inFlight
            /\ \A k \in DOMAIN retry_log[q] :
                  retry_log[q][k].ok =>
                      [MessageId |-> retry_log[q][k].MessageId,
                       MessageBody |-> retry_log[q][k].MessageBody] \in pushQueue
            /\ running /\ ~exited
            /\ (\A o \in QueueNames : pc[o] = "done") => ENABLED RunLoop

\* C30 witness: a cycle sent the retry of its first message, built that
\* message's event, and raised on its second message.
C30_Witness ==
    \E q \in QueueNames :
        /\ LoopRaised(q)
        /\ Len(messages[q]) = 2 /\ idx[q] = 2
        /\ \E k \in DOMAIN retry_log[q] :
              retry_log[q][k].ok /\ retry_log[q][k].MessageId = messages[q][1]
        /\ ProcessedFor(q, messages[q][1]) /= {}
        /\ \A o \in QueueNames : pc[o] = "done"

====
